---- MODULE Spec2Model ----
(***************************************************************************)
(* Model of real_time_prediction.py: OSC handler threads append samples to *)
(* per-channel deques under a lock; the aggregator thread wakes every two  *)
(* seconds, snapshots and clears the buffers under the same lock, derives  *)
(* BVA, writes three CSV files, classifies and debounces an alert.         *)
(***************************************************************************)
EXTENDS Integers, Sequences, FiniteSets, TLC

\* ---------------------------------------------------------------- bounds
MaxCycles == 2          \* aggregation cycles explored under Spec
MaxAlertCycles == 20    \* aggregation cycles explored under SpecAlert
MaxMessages == 2        \* OSC messages handled one at a time under Spec
MaxLiveCycles == 1      \* aggregation cycles explored under SpecLive
MaxLiveMessages == 1    \* OSC messages handled under SpecLive
MaxTail == 4            \* samples that continue the cut waveform under SpecBva
MaxFullMessages == 2    \* OSC messages handled under SpecFull

\* ------------------------------------------------------ program constants
HISTORY_MAXLEN == 10    \* deque(maxlen=10)
BUFFER_MAXLEN == 500    \* deque(maxlen=500)
BVA_MIN_SAMPLES == 10   \* len(ppg_values) < 10
ALERT_WINDOW == 10      \* len(last_predictions) >= 10

\* ------------------------------------------------------------ option type
\* Python None is the empty tuple, a present value x is <<x>>.
None == <<>>
Some(x) == <<x>>

fieldnames ==
  << "timestamp", "ACC:X", "ACC:Y", "ACC:Z",
     "PPG:RED", "PPG:IR", "PPG:GRN", "EDA", "HUMIDITY", "TEMP", "T1", "HR", "BVA",
     "GYRO:X", "GYRO:Y", "GYRO:Z", "MAG:X", "MAG:Y", "MAG:Z" >>

\* the keys the aggregation loop visits: fieldnames[1:] without "BVA"
LoopIndices == {i \in 2..Len(fieldnames) : fieldnames[i] # "BVA"}
LoopKeys == {fieldnames[i] : i \in LoopIndices}

\* OSC addresses the producer may deliver, as the list address.split("/")
Addresses ==
  { <<"", "EmotiBit", "0", "PPG:IR">>,
    <<"", "EmotiBit", "0", "EDA">>,
    <<"", "EmotiBit", "0", "TEMP2">>,
    <<"", "EmotiBit", "0", "SCR:AMP">> }

\* address.split("/")[-1], then the TEMP2 -> T1 alias
SignalOf(address) ==
  LET signal == address[Len(address)]
  IN  IF signal = "TEMP2" THEN "T1" ELSE signal

Channels == LoopKeys \cup {SignalOf(a) : a \in Addresses}

\* An OSC argument: a number, or a string (python-osc passes both through).
Num(n) == [num |-> TRUE, val |-> n]
Str == [num |-> FALSE, val |-> 0]
ArgValues == {Num(3)}

\* classes of the label encoder
Labels == {"low", "high"}
MODEL_NOT_LOADED == "MODEL_NOT_LOADED"
PREDICTION_ERROR == "PREDICTION_ERROR"
NoLabel == ""

\* str.upper() on the labels the classifier adapter can return
Upper(label) ==
  CASE label = "low" -> "LOW"
    [] label = "high" -> "HIGH"
    [] OTHER -> label

IOOutcomes == {"ok", "error"}
StaleRows == {0, 2}
Handlers == {"h1"}

VARIABLES
  ml,                  \* <<clf, std_scaler, bva_scaler, label_encoder>>
  data_buffer,         \* channel -> sequence of samples [id, num, val]
  lock,                \* "free" or "consumer"
  handler,             \* handler thread -> [pc, signal, value]
  cpc,                 \* position of the aggregator thread
  cycle,               \* iterations of the while loop begun
  ppg_ir_values, bva_value, bva_scaled, row, prediction_data, cognitive_load,
  csv_rows, cogload_rows, prediction_rows,   \* data rows of the three files
  last_predictions,
  alert_calls, last_alert,                   \* send_unity_alert calls
  \* history variables
  next_id, messages, included, prev_included, appended_since_release,
  full_cycles, labels_since_alert, scoring_attempted, cycle_failed,
  \* the consecutive-run counter the alert history is compared with
  run_count, run_prev

mlVars == <<ml>>
bufVars == <<data_buffer, next_id>>
prodVars == <<handler, messages>>
localVars == <<ppg_ir_values, bva_value, bva_scaled, row, prediction_data>>
fileVars == <<csv_rows, cogload_rows, prediction_rows>>
alertVars == <<last_predictions, alert_calls, last_alert, labels_since_alert,
               run_count, run_prev>>
snapVars == <<included, prev_included, appended_since_release, full_cycles>>
vars == <<ml, data_buffer, lock, handler, cpc, cycle, ppg_ir_values, bva_value,
          bva_scaled, row, prediction_data, cognitive_load, csv_rows,
          cogload_rows, prediction_rows, last_predictions, alert_calls,
          last_alert, next_id, messages, included, prev_included,
          appended_since_release, full_cycles, labels_since_alert,
          scoring_attempted, cycle_failed, run_count, run_prev>>

\* --------------------------------------------------------------- helpers
RECURSIVE SumVals(_)
SumVals(s) ==
  IF s = <<>> THEN 0
  ELSE IF Len(s) = 1 THEN s[1].val
  ELSE LET half == Len(s) \div 2
       IN  SumVals(SubSeq(s, 1, half)) + SumVals(SubSeq(s, half + 1, Len(s)))

Ids(s) == {s[i].id : i \in 1..Len(s)}
Vals(s) == [i \in 1..Len(s) |-> s[i].val]
AllNumeric(s) == \A i \in 1..Len(s) : s[i].num

\* variant of DequeAppend: no maxlen
DequeAppendUnbounded(d, x, maxlen) == Append(d, x)

\* deque.append with maxlen: the oldest entry is dropped when full
DequeAppend(d, x, maxlen) ==
  IF Len(d) >= maxlen THEN Append(Tail(d), x) ELSE Append(d, x)

\* sum(buf) / len(buf), kept as the exact quotient sum/n
Mean(s) == [sum |-> SumVals(s), n |-> Len(s)]

\* row[key] of one tracked channel: the mean of its buffer, None when empty
\* variant: an empty buffer gives a zero mean
RowValueZeroWhenEmpty(buf) ==
  IF buf # <<>> THEN Some(Mean(buf)) ELSE Some([sum |-> 0, n |-> 1])
RowValue(buf) == IF buf # <<>> THEN Some(Mean(buf)) ELSE None

EmptyRow == [k \in LoopKeys \cup {"BVA"} |-> None]
EmptyPrediction == [EDA |-> None, Temp |-> None, BVA |-> None]
IdleHandler == [pc |-> "idle", signal |-> "", value |-> Str]

\* scipy.signal.find_peaks(x) without constraints: the midpoints of the
\* plateaus that are strictly higher than both neighbours; the first and the
\* last sample are never peaks. Indices are 1-based here.
FindPeaks(x) ==
  LET n == Len(x)
      Plateau(i, j) ==
        /\ i <= j
        /\ x[i - 1] < x[i]
        /\ \A k \in i..j : x[k] = x[i]
        /\ x[j + 1] < x[i]
  IN  {(i + j) \div 2 : <<i, j>> \in {p \in (2..(n - 1)) \X (2..(n - 1)) : Plateau(p[1], p[2])}}

Negate(x) == [i \in 1..Len(x) |-> 0 - x[i]]
SetMax(S) == CHOOSE m \in S : \A k \in S : k <= m
Abs(n) == IF n < 0 THEN 0 - n ELSE n

\* variant of compute_bva: nine samples are enough
compute_bva_nine_samples(ppg_values) ==
  IF Len(ppg_values) < BVA_MIN_SAMPLES - 1 THEN None
  ELSE LET peaks == FindPeaks(ppg_values)
           troughs == FindPeaks(Negate(ppg_values))
       IN  IF peaks = {} \/ troughs = {} THEN None
           ELSE Some(Abs(ppg_values[SetMax(peaks)] - ppg_values[SetMax(troughs)]))

\* variant of compute_bva: the highest peak against the lowest trough
compute_bva_extremes(ppg_values) ==
  IF Len(ppg_values) < BVA_MIN_SAMPLES THEN None
  ELSE LET peaks == FindPeaks(ppg_values)
           troughs == FindPeaks(Negate(ppg_values))
       IN  IF peaks = {} \/ troughs = {} THEN None
           ELSE Some(Abs(SetMax({ppg_values[i] : i \in peaks})
                         - (0 - SetMax({0 - ppg_values[i] : i \in troughs}))))

compute_bva(ppg_values) ==
  IF Len(ppg_values) < BVA_MIN_SAMPLES THEN None
  ELSE LET peaks == FindPeaks(ppg_values)
           troughs == FindPeaks(Negate(ppg_values))
       IN  IF peaks = {} \/ troughs = {} THEN None
           ELSE Some(Abs(ppg_values[SetMax(peaks)] - ppg_values[SetMax(troughs)]))

\* variant of MinMaxFitTransform: the value is not rescaled
MinMaxNoRescale(v) == v

\* MinMaxScaler(feature_range=(0, 1)).fit_transform([[v]])[0][0]: the fit
\* sees the single value v, a zero data range is replaced by 1.
MinMaxFitTransform(v) ==
  LET data_min == v
      data_max == v
      data_range == data_max - data_min
      range == IF data_range = 0 THEN 1 ELSE data_range
      scale == (1 - 0) \div range
      min == 0 - data_min * scale
  IN  v * scale + min


\* ------------------------------------------------------------------ Init
\* load_ml_components(): the four artifacts, or four None when any load fails
load_ml_components(ok) ==
  IF ok THEN <<Some("clf"), Some("std_scaler"), Some("bva_scaler"), Some("label_encoder")>>
  ELSE <<None, None, None, None>>

Init ==
  /\ \E ok \in BOOLEAN : ml = load_ml_components(ok)
  /\ data_buffer = [ch \in Channels |-> <<>>]
  /\ lock = "free"
  /\ handler = [h \in Handlers |-> IdleHandler]
  /\ cpc = "init"
  /\ cycle = 0
  /\ ppg_ir_values = <<>>
  /\ bva_value = None
  /\ bva_scaled = None
  /\ row = EmptyRow
  /\ prediction_data = EmptyPrediction
  /\ cognitive_load = NoLabel
  /\ \E stale \in StaleRows :
       /\ csv_rows = stale
       /\ cogload_rows = stale
       /\ prediction_rows = stale
  /\ last_predictions = <<>>
  /\ alert_calls = 0
  /\ last_alert = [msg |-> <<>>, sent |-> FALSE]
  /\ next_id = 1
  /\ messages = 0
  /\ included = {}
  /\ prev_included = {}
  /\ appended_since_release = FALSE
  /\ full_cycles = 0
  /\ labels_since_alert = 0
  /\ scoring_attempted = FALSE
  /\ cycle_failed = FALSE
  /\ run_count = 0
  /\ run_prev = NoLabel

\* -------------------------------------------------------------- producer
\* data_buffer[signal].append(value)
Store(buf, signal, value, id) ==
  [buf EXCEPT ![signal] =
     DequeAppend(@, [id |-> id, num |-> value.num, val |-> value.val], BUFFER_MAXLEN)]

\* generic_handler up to the lock: signal from the address, TEMP2 alias
HandlerReceive(h, maxm) ==
  /\ handler[h].pc = "idle"
  /\ messages < maxm
  /\ \E address \in Addresses, value \in ArgValues :
       handler' = [handler EXCEPT ![h] =
                     [pc |-> "waiting", signal |-> SignalOf(address), value |-> value]]
  /\ messages' = messages + 1
  /\ UNCHANGED <<ml, data_buffer, next_id, lock, cpc, cycle, localVars, cognitive_load,
                 fileVars, alertVars, snapVars, scoring_attempted, cycle_failed>>

\* variant of HandlerAppend: the append does not wait for the lock
HandlerAppendNoLock(h) ==
  /\ handler[h].pc = "waiting"
  /\ data_buffer' = Store(data_buffer, handler[h].signal, handler[h].value, next_id)
  /\ next_id' = next_id + 1
  /\ handler' = [handler EXCEPT ![h] = IdleHandler]
  /\ appended_since_release' = TRUE
  /\ UNCHANGED <<ml, lock, messages, cpc, cycle, localVars, cognitive_load, fileVars,
                 alertVars, included, prev_included, full_cycles, scoring_attempted,
                 cycle_failed>>

\* with lock: data_buffer[signal].append(value). The handler's critical
\* section is the one append: it is taken when the lock is free and leaves
\* the lock free.
HandlerAppend(h) ==
  /\ handler[h].pc = "waiting"
  /\ lock = "free"
  /\ data_buffer' = Store(data_buffer, handler[h].signal, handler[h].value, next_id)
  /\ next_id' = next_id + 1
  /\ handler' = [handler EXCEPT ![h] = IdleHandler]
  /\ appended_since_release' = TRUE
  /\ UNCHANGED <<ml, lock, messages, cpc, cycle, localVars, cognitive_load, fileVars,
                 alertVars, included, prev_included, full_cycles, scoring_attempted,
                 cycle_failed>>

\* A run of generic_handler calls, each completed before the next, while the
\* aggregator sleeps: msgs is a sequence of <<address, value>>.
RECURSIVE StoreAll(_, _, _)
StoreAll(buf, msgs, id) ==
  IF msgs = <<>> THEN buf
  ELSE StoreAll(Store(buf, SignalOf(msgs[1][1]), msgs[1][2], id), Tail(msgs), id + 1)

PpgMsgs(values) ==
  [i \in 1..Len(values) |-> << <<"", "EmotiBit", "0", "PPG:IR">>, Num(values[i]) >>]

\* a window with a waveform, EDA and temperature
FullWindow ==
  PpgMsgs(<<1, 5, 2, 8, 3, 9, 1, 6, 2, 7>>)
    \o << << <<"", "EmotiBit", "0", "EDA">>, Num(5) >>,
          << <<"", "EmotiBit", "0", "TEMP2">>, Num(30) >> >>

\* a window in which the EDA argument is a string
StringWindow ==
  << << <<"", "EmotiBit", "0", "EDA">>, Str >> >>

Windows == {FullWindow, StringWindow}

ProducerBurst(msgs) ==
  /\ cpc = "sleep"
  /\ lock = "free"
  /\ \A h \in Handlers : handler[h].pc = "idle"
  /\ \A ch \in Channels : data_buffer[ch] = <<>>
  /\ data_buffer' = StoreAll(data_buffer, msgs, next_id)
  /\ next_id' = next_id + Len(msgs)
  /\ appended_since_release' = TRUE
  /\ UNCHANGED <<ml, lock, prodVars, cpc, cycle, localVars, cognitive_load, fileVars,
                 alertVars, included, prev_included, full_cycles, scoring_attempted,
                 cycle_failed>>


\* -------------------------------------------------------------- consumer
\* `with lock:` leaves the lock free on every exit, normal or by exception
\* variants: the lock stays held after an exception; the lock stays held
LockOnExitLeak(raised) == IF raised THEN "consumer" ELSE "free"
LockOnExitHeld(raised) == "consumer"
LockOnExit(raised) == "free"

\* None not in (EDA, Temp, BVA)
\* variants: nothing is tested; BVA is not tested
FullVectorAlways(pd) == TRUE
FullVectorNoBva(pd) == pd.EDA # None /\ pd.Temp # None
FullVector(pd) == pd.EDA # None /\ pd.Temp # None /\ pd.BVA # None

\* None in (clf, std_scaler, bva_scaler, label_encoder)
\* variant: the test is missing
ModelNotLoadedNever(components) == FALSE
ModelNotLoaded(components) == \E i \in 1..Len(components) : components[i] = None

\* variant of HistoryAfterAppend: the history has no maxlen
HistoryUnbounded(history, label) == Append(history, label)

\* last_predictions.append(cognitive_load)
\* variant: a label that differs from the last one restarts the history
HistoryResetOnMismatch(history, label) ==
  IF history # <<>> /\ history[Len(history)] # label THEN <<label>>
  ELSE DequeAppend(history, label, HISTORY_MAXLEN)
HistoryAfterAppend(history, label) == DequeAppend(history, label, HISTORY_MAXLEN)

\* len(last_predictions) >= 10 and len(set(last_predictions)) == 1
\* variants: 10 entries are enough, equal or not; 9 equal entries are enough
AlertDueAnyTen(history) == Len(history) >= ALERT_WINDOW
AlertDueAtNine(history) ==
  /\ Len(history) >= ALERT_WINDOW - 1
  /\ Cardinality({history[i] : i \in 1..Len(history)}) = 1
AlertDue(history) ==
  /\ Len(history) >= ALERT_WINDOW
  /\ Cardinality({history[i] : i \in 1..Len(history)}) = 1

\* last_predictions.clear() after send_unity_alert returned
\* variants: cleared only when the send succeeded; never cleared
HistoryKeptOnSendFailure(history, sent) == IF sent THEN <<>> ELSE history
HistoryNeverCleared(history, sent) == history
HistoryAfterAlert(history, sent) == <<>>

\* the length of the run of equal labels that ends with label, given the
\* count and the label before it
RunAfter(count, prev, label) == IF label = prev THEN count + 1 ELSE 1

\* f"ALERT|{cognitive_load.upper()}", as <<prefix, label>>
AlertMessage(label) == <<"ALERT", Upper(label)>>

\* the locals of one loop iteration, unbound: they are rebound before their
\* next use, and gone with the thread when an exception ends it
DropLocals ==
  /\ ppg_ir_values' = <<>>
  /\ bva_value' = None
  /\ bva_scaled' = None
  /\ row' = EmptyRow
  /\ prediction_data' = EmptyPrediction
  /\ cognitive_load' = NoLabel

\* an exception leaves aggregate_and_save: the thread ends
Raise ==
  /\ cpc' = "terminated"
  /\ cycle_failed' = TRUE
  /\ DropLocals

\* initialize_files(): the three files are truncated and get their header
InitializeFiles ==
  /\ cpc = "init"
  /\ \E io \in IOOutcomes :
       IF io = "ok"
       THEN /\ csv_rows' = 0
            /\ cogload_rows' = 0
            /\ prediction_rows' = 0
            /\ cpc' = "sleep"
       ELSE /\ cpc' = "terminated"
            /\ UNCHANGED fileVars
  /\ UNCHANGED <<ml, bufVars, lock, prodVars, cycle, localVars, cognitive_load,
                 alertVars, snapVars, scoring_attempted, cycle_failed>>

\* time.sleep(2) returns; row and prediction_data are fresh dicts
Wake(maxc) ==
  /\ cpc = "sleep"
  /\ cycle < maxc
  /\ cycle' = cycle + 1
  /\ cpc' = "lock"
  /\ DropLocals
  /\ prev_included' = included
  /\ included' = {}
  /\ UNCHANGED <<ml, bufVars, lock, prodVars, fileVars, alertVars,
                 appended_since_release, full_cycles, scoring_attempted, cycle_failed>>

\* variant of ConsumerAcquire: the block is entered without the lock
ConsumerSkipsLock ==
  /\ cpc = "lock"
  /\ cpc' = "read_ppg"
  /\ UNCHANGED <<ml, bufVars, lock, prodVars, cycle, localVars, cognitive_load, fileVars,
                 alertVars, snapVars, scoring_attempted, cycle_failed>>

\* with lock: (entry)
ConsumerAcquire ==
  /\ cpc = "lock"
  /\ lock = "free"
  /\ lock' = "consumer"
  /\ cpc' = "read_ppg"
  /\ UNCHANGED <<ml, bufVars, prodVars, cycle, localVars, cognitive_load, fileVars,
                 alertVars, snapVars, scoring_attempted, cycle_failed>>

\* ppg_ir_values = list(data_buffer["PPG:IR"]); compute_bva; fit_transform.
\* np.array / find_peaks raise on a non-numeric sample once 10 are present.
ReadPPG ==
  /\ cpc = "read_ppg"
  /\ LET snapshot == data_buffer["PPG:IR"]
         raises == Len(snapshot) >= BVA_MIN_SAMPLES /\ ~AllNumeric(snapshot)
         bva == compute_bva(Vals(snapshot))
         scaled == IF bva # None THEN Some(MinMaxFitTransform(bva[1])) ELSE None
     IN  /\ included' = included \cup Ids(snapshot)
         /\ IF raises
            THEN /\ Raise
                 /\ lock' = LockOnExit(TRUE)
            ELSE /\ ppg_ir_values' = snapshot
                 /\ bva_value' = bva
                 /\ bva_scaled' = scaled
                 /\ row' = [row EXCEPT !["BVA"] = bva]
                 /\ prediction_data' = [prediction_data EXCEPT !.BVA = scaled]
                 /\ cpc' = "aggregate"
                 /\ UNCHANGED <<lock, cognitive_load, cycle_failed>>
  /\ UNCHANGED <<ml, bufVars, prodVars, cycle, fileVars, alertVars,
                 prev_included, appended_since_release, full_cycles, scoring_attempted>>

SetMin(S) == CHOOSE m \in S : \A k \in S : m <= k

\* for key in fieldnames[1:]: mean and clear, or None; sum() raises on the
\* first buffer that holds a non-numeric sample, the keys before it are done.
AggregateChannels ==
  /\ cpc = "aggregate"
  /\ LET bad == {i \in LoopIndices : ~AllNumeric(data_buffer[fieldnames[i]])}
         stop == IF bad = {} THEN Len(fieldnames) + 1 ELSE SetMin(bad)
         done == {fieldnames[i] : i \in {j \in LoopIndices : j < stop}}
     IN  /\ data_buffer' = [ch \in Channels |->
                              IF ch \in done THEN <<>> ELSE data_buffer[ch]]
         /\ included' = included \cup UNION {Ids(data_buffer[k]) : k \in done}
         /\ IF bad # {}
            THEN /\ Raise
                 /\ lock' = LockOnExit(TRUE)
            ELSE /\ row' = [k \in DOMAIN row |->
                              IF k \in LoopKeys THEN RowValue(data_buffer[k]) ELSE row[k]]
                 /\ cpc' = "clear_ppg"
                 /\ UNCHANGED <<lock, ppg_ir_values, bva_value, bva_scaled,
                                prediction_data, cognitive_load, cycle_failed>>
  /\ UNCHANGED <<ml, next_id, prodVars, cycle, fileVars, alertVars, prev_included,
                 appended_since_release, full_cycles, scoring_attempted>>

\* data_buffer["PPG:IR"].clear(); prediction_data EDA and Temp; lock released
ClearPPG ==
  /\ cpc = "clear_ppg"
  /\ data_buffer' = [data_buffer EXCEPT !["PPG:IR"] = <<>>]
  /\ prediction_data' = [prediction_data EXCEPT !.EDA = row["EDA"], !.Temp = row["T1"]]
  /\ lock' = LockOnExit(FALSE)
  /\ cpc' = "write_row"
  /\ appended_since_release' = FALSE
  /\ full_cycles' = IF row["EDA"] # None /\ row["T1"] # None /\ bva_value # None
                    THEN full_cycles + 1 ELSE full_cycles
  /\ UNCHANGED <<ml, next_id, prodVars, cycle, ppg_ir_values, bva_value, bva_scaled,
                 row, cognitive_load, fileVars, alertVars, included, prev_included,
                 scoring_attempted, cycle_failed>>

\* the row is appended to csv_file; then the test for a full feature vector:
\* without one the iteration is over
WriteRow ==
  /\ cpc = "write_row"
  /\ \E io \in IOOutcomes :
       IF io = "ok"
       THEN /\ csv_rows' = csv_rows + 1
            /\ IF FullVector(prediction_data)
               THEN /\ cpc' = "write_features"
                    /\ UNCHANGED <<localVars, cognitive_load>>
               ELSE /\ cpc' = "sleep"
                    /\ DropLocals
            /\ UNCHANGED cycle_failed
       ELSE /\ Raise
            /\ UNCHANGED csv_rows
  /\ UNCHANGED <<ml, bufVars, lock, prodVars, cycle, cogload_rows, prediction_rows,
                 alertVars, snapVars, scoring_attempted>>

\* the features are appended to cogload_file
WriteFeatures ==
  /\ cpc = "write_features"
  /\ \E io \in IOOutcomes :
       IF io = "ok"
       THEN /\ cogload_rows' = cogload_rows + 1
            /\ cpc' = "predict"
            /\ UNCHANGED <<localVars, cognitive_load, cycle_failed>>
       ELSE /\ Raise
            /\ UNCHANGED cogload_rows
  /\ UNCHANGED <<ml, bufVars, lock, prodVars, cycle, csv_rows, prediction_rows,
                 alertVars, snapVars, scoring_attempted>>

\* predict_cognitive_load: a collaborator is None
PredictNotLoaded ==
  /\ cpc = "predict"
  /\ ModelNotLoaded(ml)
  /\ cognitive_load' = MODEL_NOT_LOADED
  /\ cpc' = "write_prediction"
  /\ UNCHANGED <<ml, bufVars, lock, prodVars, cycle, localVars, fileVars, alertVars,
                 snapVars, scoring_attempted, cycle_failed>>

\* predict_cognitive_load: scaling, predict and inverse_transform succeed
PredictScored ==
  /\ cpc = "predict"
  /\ ~ModelNotLoaded(ml)
  /\ \E label \in Labels : cognitive_load' = label
  /\ scoring_attempted' = TRUE
  /\ cpc' = "write_prediction"
  /\ UNCHANGED <<ml, bufVars, lock, prodVars, cycle, localVars, fileVars, alertVars,
                 snapVars, cycle_failed>>

\* variant of PredictFailed: no except clause, the exception of the scoring
\* leaves predict_cognitive_load and the loop
PredictFailedPropagates ==
  /\ cpc = "predict"
  /\ ~ModelNotLoaded(ml)
  /\ scoring_attempted' = TRUE
  /\ Raise
  /\ UNCHANGED <<ml, bufVars, lock, prodVars, cycle, fileVars, alertVars, snapVars>>

\* predict_cognitive_load: scoring raises and the except clause answers
PredictFailed ==
  /\ cpc = "predict"
  /\ ~ModelNotLoaded(ml)
  /\ cognitive_load' = PREDICTION_ERROR
  /\ scoring_attempted' = TRUE
  /\ cpc' = "write_prediction"
  /\ UNCHANGED <<ml, bufVars, lock, prodVars, cycle, localVars, fileVars, alertVars,
                 snapVars, cycle_failed>>

\* the prediction is appended to prediction_file
WritePrediction ==
  /\ cpc = "write_prediction"
  /\ \E io \in IOOutcomes :
       IF io = "ok"
       THEN /\ prediction_rows' = prediction_rows + 1
            /\ cpc' = "debounce"
            /\ UNCHANGED <<localVars, cognitive_load, cycle_failed>>
       ELSE /\ Raise
            /\ UNCHANGED prediction_rows
  /\ UNCHANGED <<ml, bufVars, lock, prodVars, cycle, csv_rows, cogload_rows,
                 alertVars, snapVars, scoring_attempted>>

\* the label joins the history; ten equal entries send the alert and clear
\* it. send_unity_alert catches a failed sendto: sent is its outcome. The
\* iteration is over.
Debounce ==
  /\ cpc = "debounce"
  /\ LET history == HistoryAfterAppend(last_predictions, cognitive_load)
     IN  IF AlertDue(history)
         THEN \E sent \in BOOLEAN :
                /\ alert_calls' = alert_calls + 1
                /\ last_alert' = [msg |-> AlertMessage(cognitive_load), sent |-> sent]
                /\ last_predictions' = HistoryAfterAlert(history, sent)
                /\ labels_since_alert' = 0
         ELSE /\ last_predictions' = history
              /\ labels_since_alert' = labels_since_alert + 1
              /\ UNCHANGED <<alert_calls, last_alert>>
  /\ run_count' = IF RunAfter(run_count, run_prev, cognitive_load) = ALERT_WINDOW THEN 0
                  ELSE RunAfter(run_count, run_prev, cognitive_load)
  /\ run_prev' = cognitive_load
  /\ cpc' = "sleep"
  /\ DropLocals
  /\ UNCHANGED <<ml, bufVars, lock, prodVars, cycle, fileVars, snapVars,
                 scoring_attempted, cycle_failed>>

\* ------------------------------------------------------- specifications
\* the steps of one loop iteration after the sleep
Iteration ==
  \/ ConsumerAcquire
  \/ ReadPPG
  \/ AggregateChannels
  \/ ClearPPG
  \/ WriteRow
  \/ WriteFeatures
  \/ PredictNotLoaded
  \/ PredictScored
  \/ PredictFailed
  \/ WritePrediction
  \/ Debounce

\* Handler threads and the aggregator thread, freely interleaved.
Next ==
  \/ \E h \in Handlers : HandlerReceive(h, MaxMessages)
  \/ \E h \in Handlers : HandlerAppend(h)
  \/ \E w \in Windows : ProducerBurst(w)
  \/ InitializeFiles
  \/ Wake(MaxCycles)
  \/ Iteration

Spec == Init /\ [][Next]_vars

\* The regime the alert debouncer is studied in: during every sleep the
\* producer delivers one full window and scoring does not raise, so every
\* iteration yields a label of the classifier (or MODEL_NOT_LOADED).
WakeOnWindow ==
  /\ data_buffer["PPG:IR"] # <<>>
  /\ Wake(MaxAlertCycles)

NextAlert ==
  \/ ProducerBurst(FullWindow)
  \/ InitializeFiles
  \/ WakeOnWindow
  \/ ConsumerAcquire
  \/ ReadPPG
  \/ AggregateChannels
  \/ ClearPPG
  \/ WriteRow
  \/ WriteFeatures
  \/ PredictNotLoaded
  \/ PredictScored
  \/ WritePrediction
  \/ Debounce

SpecAlert == Init /\ [][NextAlert]_vars


\* The interleaved threads with the scheduling they get: the aggregator
\* thread keeps running, and a handler blocked on the lock gets it once it
\* is free often enough (the aggregator sleeps two seconds between critical
\* sections).
NextLive ==
  \/ \E h \in Handlers : HandlerReceive(h, MaxLiveMessages)
  \/ \E h \in Handlers : HandlerAppend(h)
  \/ \E w \in Windows : ProducerBurst(w)
  \/ InitializeFiles
  \/ Wake(MaxLiveCycles)
  \/ Iteration

SpecLive ==
  /\ Init
  /\ [][NextLive]_vars
  /\ WF_vars(InitializeFiles \/ Wake(MaxLiveCycles) \/ Iteration)
  /\ \A h \in Handlers : SF_vars(HandlerAppend(h))

\* compute_bva on its own. The aggregator has just woken up for its first
\* iteration; during the sleep the producer delivered one PPG:IR window and
\* nothing on the other channels. The windows: a waveform cut at some
\* length and continued by every short sequence over three levels, and
\* strictly monotonic ramps.
Waveform == <<1, 5, 2, 8, 3, 9, 1, 6, 2, 7>>
WaveCuts == {0, 9, 10}
PpgLevels == {1, 2, 3}
Tails == UNION {[1..n -> PpgLevels] : n \in 0..MaxTail}
Ramps ==
  LET Rising(n, d, e) == [i \in 1..n |-> i * d + (i % 2) * e]
      Up == {Rising(n, d, e) : n \in BVA_MIN_SAMPLES..(BVA_MIN_SAMPLES + MaxTail - 1),
                               d \in {2, 3}, e \in {0, 1}}
  IN  Up \cup {[i \in 1..Len(x) |-> 50 - x[i]] : x \in Up}
BvaInputs == {SubSeq(Waveform, 1, k) \o t : k \in WaveCuts, t \in Tails} \cup Ramps

\* the state at `with lock:` of the first iteration, the buffers as given
AwakeWith(buf, id) ==
  /\ \E ok \in BOOLEAN : ml = load_ml_components(ok)
  /\ data_buffer = buf
  /\ next_id = id
  /\ lock = "free"
  /\ handler = [h \in Handlers |-> IdleHandler]
  /\ cpc = "lock"
  /\ cycle = 1
  /\ ppg_ir_values = <<>>
  /\ bva_value = None
  /\ bva_scaled = None
  /\ row = EmptyRow
  /\ prediction_data = EmptyPrediction
  /\ cognitive_load = NoLabel
  /\ csv_rows = 0
  /\ cogload_rows = 0
  /\ prediction_rows = 0
  /\ last_predictions = <<>>
  /\ alert_calls = 0
  /\ last_alert = [msg |-> <<>>, sent |-> FALSE]
  /\ messages = 0
  /\ included = {}
  /\ prev_included = {}
  /\ appended_since_release = (id > 1)
  /\ full_cycles = 0
  /\ labels_since_alert = 0
  /\ scoring_attempted = FALSE
  /\ cycle_failed = FALSE
  /\ run_count = 0
  /\ run_prev = NoLabel

InitBva ==
  \E x \in BvaInputs :
    AwakeWith(StoreAll([ch \in Channels |-> <<>>], PpgMsgs(x), 1), Len(x) + 1)

NextBva ==
  \/ ConsumerAcquire
  \/ ReadPPG
  \/ AggregateChannels
  \/ ClearPPG
  \/ WriteRow

SpecBva == InitBva /\ [][NextBva]_vars

\* A channel buffer about to overflow. The aggregator has just woken up for
\* its first iteration; during the sleep one channel, tracked (EDA) or not
\* (SCR:AMP), received one sample less than its buffer holds. Handler
\* threads go on appending while the iteration runs.
NearlyFull(ch) ==
  [c \in Channels |->
     IF c = ch THEN [i \in 1..(BUFFER_MAXLEN - 1) |-> [id |-> i, num |-> TRUE, val |-> 3]]
     ELSE <<>>]

InitFull == \E ch \in {"EDA", "SCR:AMP"} : AwakeWith(NearlyFull(ch), BUFFER_MAXLEN)

NextFull ==
  \/ \E h \in Handlers : HandlerReceive(h, MaxFullMessages)
  \/ \E h \in Handlers : HandlerAppend(h)
  \/ ConsumerAcquire
  \/ ReadPPG
  \/ AggregateChannels
  \/ ClearPPG
  \/ WriteRow

SpecFull == InitFull /\ [][NextFull]_vars

\* ---------------------------------------------------------------- claims
InCriticalSection == cpc \in {"read_ppg", "aggregate", "clear_ppg"}
AfterCriticalSection ==
  cpc \in {"write_row", "write_features", "predict", "write_prediction", "debounce"}
TrackedIds == UNION {Ids(data_buffer[k]) : k \in LoopKeys}
AllEqual(h) == \A i \in 1..Len(h) : h[i] = h[1]
DebounceStep == cpc = "debounce" /\ cpc' # "debounce"

\* C1: under any interleaving of handler appends with the aggregation cycle,
\* no sample is in the snapshots of two consecutive cycles, a sample that a
\* cycle has seen is no longer buffered once the cycle has left its critical
\* section, every sample a cycle clears was in that cycle's snapshot, and a
\* cycle that follows the previous one with no append in between has an
\* empty snapshot.
C1_SnapshotExactlyOnce ==
  /\ [](included \cap prev_included = {})
  /\ [](~InCriticalSection => TrackedIds \cap (included \cup prev_included) = {})
  /\ [][\A k \in LoopKeys :
          Len(data_buffer'[k]) < Len(data_buffer[k])
            => (Ids(data_buffer[k]) \ Ids(data_buffer'[k])) \subseteq included']_vars
  /\ [][(cpc = "clear_ppg" /\ cpc' = "write_row" /\ ~appended_since_release)
          => included' = {}]_vars

\* a handler's sample was seen by the first cycle, and the second cycle,
\* with no append in between, has left its critical section with nothing
C1_Witness ==
  /\ cycle = 2
  /\ cpc = "write_row"
  /\ messages > 0
  /\ \A h \in Handlers : handler[h].pc = "idle"
  /\ prev_included # {}
  /\ included = {}
  /\ TrackedIds = {}

C3_HistoryEmptyAfterAlert ==
  [][alert_calls' # alert_calls =>
       /\ last_predictions' = <<>>
       /\ alert_calls' = alert_calls + 1
       /\ cpc' = "sleep"
       /\ cycle_failed' = cycle_failed]_vars

\* an alert whose send failed, and the next label in a history of one
C3_Witness ==
  /\ alert_calls = 1
  /\ ~last_alert.sent
  /\ prediction_rows = 11
  /\ cpc = "sleep"
  /\ Len(last_predictions) = 1

\* C4: when the last 9 labels of the history are equal and a different
\* label is fed, no alert is sent and the history then holds 10 entries: the
\* 9 equal labels and the new one last; of a history of 10 only the oldest
\* entry is gone.
C4_NineThenDifferent ==
  [][(/\ DebounceStep
      /\ Len(last_predictions) >= 9
      /\ \A i \in (Len(last_predictions) - 8)..Len(last_predictions) :
           last_predictions[i] = last_predictions[Len(last_predictions)]
      /\ cognitive_load # last_predictions[Len(last_predictions)])
     => /\ alert_calls' = alert_calls
        /\ Len(last_predictions') = 10
        /\ last_predictions'[10] = cognitive_load
        /\ \A i \in 1..9 :
             last_predictions'[i] = last_predictions[Len(last_predictions) - 9 + i]]_vars

\* 9 times "low", then "high", from an empty history
C4_Witness ==
  /\ prediction_rows = 10
  /\ alert_calls = 0
  /\ cpc = "sleep"
  /\ last_predictions =
       <<"low", "low", "low", "low", "low", "low", "low", "low", "low", "high">>

\* C5: an alert is sent only with the 10th or a later label appended since
\* the previous alert, and the history never holds more labels than were
\* appended since then.
C5_OneShot ==
  /\ [][alert_calls' # alert_calls => labels_since_alert + 1 >= 10]_vars
  /\ [](Len(last_predictions) <= labels_since_alert)

\* a second alert
C5_Witness ==
  /\ alert_calls = 2
  /\ last_predictions = <<>>
  /\ labels_since_alert = 0

\* C6: an exception raised in one cycle does not end the periodic loop.
C6_LoopSurvivesFailure == cycle_failed => cpc # "terminated"

\* C7: the aggregator holds the lock only in its critical section, not
\* while it writes a file, classifies or sends the alert; a handler that
\* waits to append during those steps can append.
C7_LockOnlyInCriticalSection ==
  /\ lock = "consumer" <=> InCriticalSection
  /\ \A h \in Handlers :
       (AfterCriticalSection /\ handler[h].pc = "waiting") => ENABLED HandlerAppend(h)

\* a handler has appended while the aggregator was at the classifier call
C7_Witness ==
  /\ cpc = "predict"
  /\ appended_since_release
  /\ lock = "free"

C9_RowsPerCycle ==
  cpc = "sleep" =>
    /\ csv_rows = cycle
    /\ cogload_rows = full_cycles
    /\ prediction_rows = full_cycles
    /\ cogload_rows <= csv_rows

\* two cycles done, one of them with a full feature vector
C9_Witness ==
  /\ cpc = "sleep"
  /\ cycle = 2
  /\ csv_rows = 2
  /\ cogload_rows = 1
  /\ prediction_rows = 1

\* C10: when a collaborator failed to load, the classifier call answers
\* MODEL_NOT_LOADED, changes nothing else and scoring is never attempted.
C10_NotLoadedSentinel ==
  /\ []((\E i \in 1..4 : ml[i] = <<>>) =>
          /\ cognitive_load \in {NoLabel, "MODEL_NOT_LOADED"}
          /\ ~scoring_attempted
          /\ \A i \in 1..Len(last_predictions) : last_predictions[i] = "MODEL_NOT_LOADED")
  /\ [][(cpc = "predict" /\ cpc' # "predict" /\ \E i \in 1..4 : ml[i] = <<>>) =>
          /\ cognitive_load' = "MODEL_NOT_LOADED"
          /\ cpc' = "write_prediction"
          /\ UNCHANGED <<ml, data_buffer, lock, handler, cycle, localVars, fileVars,
                         alertVars, snapVars, next_id, messages, scoring_attempted,
                         cycle_failed>>]_vars

\* the classifier call has answered the sentinel for a full feature vector
C10_Witness ==
  /\ ml[1] = <<>>
  /\ cpc = "write_prediction"
  /\ cognitive_load = "MODEL_NOT_LOADED"
  /\ FullVector(prediction_data)

\* C11: when scaling, predicting or decoding raises, predict_cognitive_load
\* answers PREDICTION_ERROR and the exception goes no further: the iteration
\* goes on to the prediction row, which is written with the sentinel (unless
\* the file write itself fails), and the sentinel is appended to the alert
\* history as any label is.
C11_ErrorSentinelContinues ==
  /\ [][(cpc = "predict" /\ cpc' # "predict" /\ scoring_attempted'
          /\ cognitive_load' \notin Labels) =>
          /\ cognitive_load' = "PREDICTION_ERROR"
          /\ cpc' = "write_prediction"
          /\ cycle_failed' = cycle_failed
          /\ UNCHANGED <<localVars, fileVars, alertVars>>]_vars
  /\ [][(cpc = "write_prediction" /\ cognitive_load = "PREDICTION_ERROR"
          /\ cpc' \notin {"write_prediction", "terminated"}) =>
          /\ prediction_rows' = prediction_rows + 1
          /\ cpc' = "debounce"
          /\ cognitive_load' = "PREDICTION_ERROR"]_vars
  /\ [][(DebounceStep /\ cognitive_load = "PREDICTION_ERROR") =>
          IF alert_calls' = alert_calls
          THEN /\ last_predictions' # <<>>
               /\ last_predictions'[Len(last_predictions')] = "PREDICTION_ERROR"
               /\ \A i \in 1..(Len(last_predictions') - 1) :
                    last_predictions'[i] =
                      last_predictions[i + Len(last_predictions) + 1 - Len(last_predictions')]
               /\ Len(last_predictions') = IF Len(last_predictions) < 10
                                           THEN Len(last_predictions) + 1 ELSE 10
          ELSE /\ last_alert'.msg = <<"ALERT", "PREDICTION_ERROR">>
               /\ AllEqual(Append(last_predictions, "PREDICTION_ERROR"))]_vars

\* an iteration whose scoring raised has ended normally: the prediction row
\* is in the file and the sentinel in the history
C11_Witness ==
  /\ cpc = "sleep"
  /\ ~cycle_failed
  /\ prediction_rows = 1
  /\ last_predictions = <<"PREDICTION_ERROR">>

RECURSIVE C12_SumTo(_, _)
C12_SumTo(s, i) == IF i = 0 THEN 0 ELSE C12_SumTo(s, i - 1) + s[i].val

\* C12: in every cycle the row field of a tracked channel whose buffer holds
\* no sample is None (not zero, and the empty buffer raises nothing); the
\* field of a channel with at least one sample is the arithmetic mean of
\* exactly the samples its buffer holds when it is read. The row is written
\* as it was computed.
C12_MeanOrNone ==
  /\ [][(cpc = "aggregate" /\ cpc' = "clear_ppg") =>
          \A k \in LoopKeys :
            IF Len(data_buffer[k]) = 0
            THEN row'[k] = None
            ELSE row'[k] = <<[sum |-> C12_SumTo(data_buffer[k], Len(data_buffer[k])),
                             n |-> Len(data_buffer[k])]>>]_vars
  /\ [][(cpc = "aggregate" /\ cpc' = "terminated") =>
          \E k \in LoopKeys : \E i \in 1..Len(data_buffer[k]) : ~data_buffer[k][i].num]_vars
  /\ [][cpc = "clear_ppg" => row' = row]_vars

\* one channel was averaged over two samples while another had none
C12_Witness ==
  /\ cpc = "clear_ppg"
  /\ row["EDA"] = <<[sum |-> 8, n |-> 2]>>
  /\ row["T1"] # None
  /\ row["HR"] = None

StrictlyIncreasing(x) == \A i \in 1..(Len(x) - 1) : x[i] < x[i + 1]
StrictlyDecreasing(x) == \A i \in 1..(Len(x) - 1) : x[i] > x[i + 1]
\* the aggregator holds the snapshot compute_bva was applied to
BvaComputed == cpc \in {"aggregate", "clear_ppg", "write_row"}

\* C13: compute_bva answers None for every input of fewer than 10 samples,
\* and for every strictly monotonic input of 10 samples or more.
C13_ShortOrMonotonicIsNone ==
  BvaComputed =>
    LET x == Vals(ppg_ir_values)
    IN  (Len(x) < 10 \/ StrictlyIncreasing(x) \/ StrictlyDecreasing(x)) => bva_value = None

\* compute_bva was applied to a strictly rising window of at least 10 samples
C13_Witness ==
  /\ cpc = "aggregate"
  /\ Len(ppg_ir_values) >= 10
  /\ StrictlyIncreasing(Vals(ppg_ir_values))
  /\ bva_value = None

\* a flat run i..j of equal samples strictly above (sign = 1) or strictly
\* below (sign = -1) the sample before it and the sample after it
IsRunExtremum(x, i, j, sign) ==
  /\ 1 < i /\ i <= j /\ j < Len(x)
  /\ \A k \in i..j : x[k] = x[i]
  /\ sign * x[i - 1] < sign * x[i]
  /\ sign * x[j + 1] < sign * x[i]
RunExtrema(x, sign) ==
  {p \in (1..Len(x)) \X (1..Len(x)) : IsRunExtremum(x, p[1], p[2], sign)}
LastRun(S) == CHOOSE p \in S : \A q \in S : q[1] <= p[1]
\* the strict local extrema only
StrictExtrema(x, sign) ==
  {i \in 2..(Len(x) - 1) : sign * x[i - 1] < sign * x[i] /\ sign * x[i + 1] < sign * x[i]}
LastIndex(S) == CHOOSE i \in S : \A k \in S : k <= i

\* C14 as stated: with the strict local maxima as peaks and the strict local
\* minima as troughs, a window of 10 samples or more that has both yields
\* |value at the last peak - value at the last trough|.
C14_LastStrictPeakAndTrough ==
  BvaComputed =>
    LET x == Vals(ppg_ir_values)
        peaks == StrictExtrema(x, 1)
        troughs == StrictExtrema(x, -1)
    IN  (Len(x) >= 10 /\ peaks # {} /\ troughs # {}) =>
          bva_value = <<Abs(x[LastIndex(peaks)] - x[LastIndex(troughs)])>>

\* C14: for every window of 10 samples or more that has at least one peak
\* and one trough, compute_bva is |value at the peak of highest index -
\* value at the trough of highest index|, not |highest peak - lowest
\* trough|, where a peak (trough) is a sample or a flat run of equal samples
\* strictly above (below) both its neighbours; for 1,5,2,8,3,9,1,6,2,7 it
\* is |6 - 2| = 4.
C14_LastPeakAndTrough ==
  BvaComputed =>
    LET x == Vals(ppg_ir_values)
        peaks == RunExtrema(x, 1)
        troughs == RunExtrema(x, -1)
    IN  /\ (Len(x) >= 10 /\ peaks # {} /\ troughs # {}) =>
              bva_value = <<Abs(x[LastRun(peaks)[1]] - x[LastRun(troughs)[1]])>>
        /\ x = <<1, 5, 2, 8, 3, 9, 1, 6, 2, 7>> => bva_value = <<4>>

\* compute_bva was applied to the waveform whose last peak and trough are
\* not its highest peak and lowest trough
C14_Witness ==
  /\ cpc = "aggregate"
  /\ Vals(ppg_ir_values) = <<1, 5, 2, 8, 3, 9, 1, 6, 2, 7>>
  /\ bva_value = <<4>>

\* C15: in every reachable state, under any interleaving of handlers and
\* aggregator, every channel buffer holds at most 500 samples, in arrival
\* order; an append to a buffer that holds 500 removes exactly the oldest
\* sample and keeps the other 499 in order, followed by the new one.
C15_BoundedInOrder ==
  /\ [](\A ch \in Channels :
          /\ Len(data_buffer[ch]) <= 500
          /\ \A i \in 1..(Len(data_buffer[ch]) - 1) :
               data_buffer[ch][i].id < data_buffer[ch][i + 1].id)
  /\ [][\A ch \in Channels :
          (data_buffer'[ch] # data_buffer[ch] /\ data_buffer'[ch] # <<>>) =>
            LET old == data_buffer[ch]
                new == data_buffer'[ch]
            IN  /\ new[Len(new)].id = next_id
                /\ IF Len(old) = 500
                   THEN /\ Len(new) = 500
                        /\ \A i \in 1..499 : new[i] = old[i + 1]
                   ELSE /\ Len(new) = Len(old) + 1
                        /\ \A i \in 1..Len(old) : new[i] = old[i]]_vars

\* a full buffer has taken one more sample: the oldest one is gone.
C15_Witness ==
  \E ch \in Channels :
    /\ Len(data_buffer[ch]) = 500
    /\ data_buffer[ch][1].id = 2
    /\ data_buffer[ch][500].id = 501

\* C16: the alert history is a sliding window. It never holds more than 10
\* labels, and whenever the append of a label sends no alert the history
\* afterwards is the history before with the new label at its end and, if
\* it already held 10, without its oldest label: a label that differs from
\* the others neither empties nor restarts the history.
C16_SlidingWindow ==
  /\ [](Len(last_predictions) <= 10)
  /\ [][(DebounceStep /\ alert_calls' = alert_calls) =>
          last_predictions' =
            IF Len(last_predictions) = 10
            THEN Append(Tail(last_predictions), cognitive_load)
            ELSE Append(last_predictions, cognitive_load)]_vars

\* the window is full, has slid at least twice and holds two different
\* labels; no alert was sent
C16_Witness ==
  /\ Len(last_predictions) = 10
  /\ ~AllEqual(last_predictions)
  /\ prediction_rows >= 12
  /\ alert_calls = 0

MissingFeature == row["EDA"] = None \/ row["T1"] = None \/ bva_value = None

\* C17: a cycle in which the EDA mean, the T1 mean or BVA is missing leaves
\* last_predictions unchanged, does not call the classifier and sends no
\* alert; the history is appended to exactly once in each cycle that has
\* all three (and runs to its end).
C17_PartialCycleLeavesHistory ==
  /\ [](cpc \in {"write_features", "predict", "write_prediction", "debounce"}
          => ~MissingFeature)
  /\ [][(cpc = "write_row" /\ cpc' # "write_row" /\ MissingFeature) =>
          /\ cpc' \in {"sleep", "terminated"}
          /\ UNCHANGED <<last_predictions, alert_calls, last_alert, scoring_attempted,
                         cogload_rows, prediction_rows>>]_vars
  /\ [][(last_predictions' # last_predictions \/ alert_calls' # alert_calls
          \/ scoring_attempted' # scoring_attempted) =>
          cpc \in {"predict", "debounce"}]_vars
  /\ [][DebounceStep =>
          \/ last_predictions' = Append(last_predictions, cognitive_load)
          \/ /\ Len(last_predictions) = 10
             /\ last_predictions' = Append(Tail(last_predictions), cognitive_load)
          \/ /\ alert_calls' = alert_calls + 1
             /\ last_predictions' = <<>>]_vars
  /\ []((cpc \in {"sleep", "lock", "read_ppg", "aggregate", "clear_ppg"}
          /\ alert_calls = 0 /\ full_cycles <= 10)
          => Len(last_predictions) = full_cycles)

\* two cycles have ended, one of them without a full feature vector: the
\* history holds one label
C17_Witness ==
  /\ cpc = "sleep"
  /\ cycle = 2
  /\ full_cycles = 1
  /\ Len(last_predictions) = 1
  /\ alert_calls = 0

\* C18: in every cycle in which BVA is defined, the rescaled BVA, which
\* comes from a min-max fit over that single value, is one fixed value (0)
\* whatever the raw BVA is, and lies in [0, 1]; the Aggregated Row gets the
\* raw BVA, the feature vector the rescaled one.
C18_RescaledBvaIsConstant ==
  BvaComputed =>
    /\ row["BVA"] = bva_value
    /\ bva_value = compute_bva(Vals(ppg_ir_values))
    /\ prediction_data.BVA = bva_scaled
    /\ IF bva_value = None THEN bva_scaled = None
       ELSE /\ bva_scaled = <<0>>
            /\ 0 <= bva_scaled[1] /\ bva_scaled[1] <= 1

\* a raw BVA of 4 is in the row, the rescaled value is 0
C18_Witness ==
  /\ cpc = "write_row"
  /\ bva_value = <<4>>
  /\ row["BVA"] = <<4>>
  /\ bva_scaled = <<0>>
  /\ prediction_data.BVA = <<0>>

\* C19: for every sequence of labels the alert history (a window of 10
\* labels that sends an alert and is cleared when all 10 are equal) sends
\* its alerts at the same positions and with the same labels as a counter of
\* consecutive equal labels: set to 1 by a label that differs from the one
\* before, incremented by a label equal to it, sending an alert with that
\* label and going back to 0 when it reaches 10.
C19_WindowIsRunCounter ==
  [][DebounceStep =>
      LET count == IF cognitive_load = run_prev THEN run_count + 1 ELSE 1
      IN  /\ (alert_calls' = alert_calls + 1) <=> (count = 10)
          /\ (alert_calls' = alert_calls) <=> (count # 10)
          /\ count = 10 => last_alert'.msg = <<"ALERT", Upper(cognitive_load)>>
          /\ run_count' = (IF count = 10 THEN 0 ELSE count)
          /\ run_prev' = cognitive_load]_vars

\* the first alert has been sent at the 13th label: the run that reached 10
\* began after a label that broke an earlier run
C19_Witness ==
  /\ alert_calls = 1
  /\ prediction_rows = 13
  /\ run_count = 0
  /\ last_predictions = <<>>

\* C20: within one cycle the read of PPG:IR, the read-and-clear of every
\* other tracked channel and the clear of PPG:IR are one critical section.
\* No append of a producer takes effect between them: the buffers change
\* only by the aggregator's clears, PPG:IR still is the snapshot BVA was
\* computed from when the channels are read, its mean is taken over that
\* snapshot, and when the lock is released every tracked buffer is empty,
\* so all windows end together and no PPG:IR sample is cleared unseen.
C20_OneCriticalSection ==
  /\ [][InCriticalSection =>
          /\ next_id' = next_id
          /\ \A ch \in Channels : data_buffer'[ch] \in {data_buffer[ch], <<>>}]_vars
  /\ [](cpc = "aggregate" => data_buffer["PPG:IR"] = ppg_ir_values)
  /\ [](cpc = "clear_ppg" =>
          /\ data_buffer["PPG:IR"] = <<>>
          /\ row["PPG:IR"] = (IF ppg_ir_values = <<>> THEN None
                               ELSE <<[sum |-> C12_SumTo(ppg_ir_values, Len(ppg_ir_values)),
                                       n |-> Len(ppg_ir_values)]>>))
  /\ [][(cpc = "clear_ppg" /\ cpc' = "write_row") =>
          /\ \A k \in LoopKeys : data_buffer'[k] = <<>>
          /\ lock = "consumer" /\ lock' = "free"]_vars

\* a handler holds a PPG:IR sample and waits while the aggregator, between
\* its reads and the last clear, has a window of PPG:IR in hand
C20_Witness ==
  /\ cpc = "clear_ppg"
  /\ \E h \in Handlers : handler[h].pc = "waiting" /\ handler[h].signal = "PPG:IR"
  /\ Len(ppg_ir_values) >= 10
  /\ data_buffer["PPG:IR"] = <<>>

====
